---------------------------- MODULE Spec2Model ----------------------------
(***************************************************************************)
(* Model of simgrid_cluster_with_historical_errors.cpp: one master actor   *)
(* that hands jobs round-robin to MAX_WORKERS worker actors over blocking  *)
(* mailboxes, workers that run each job in 0.1 s slices under a 10.0 s     *)
(* ceiling and record the outcome in global counters, and main(), which    *)
(* extracts the error table of the target queue, starts the actors and     *)
(* prints the summary.  worker() and master() of                           *)
(* simgrid_cluster_with_errors.cpp are the same code with num_jobs = 20    *)
(* and 10 workers.                                                         *)
(*                                                                         *)
(* Times are IEEE-754 doubles.  A double d with 0 <= d < 16 is kept as the *)
(* pair <<hi, lo>> with d = (hi * 2^30 + lo) * 2^-56, so that every value  *)
(* the slice loop produces is an integer number of 2^-56 units and each    *)
(* floating-point operation is the exact operation followed by rounding to *)
(* nearest, ties to even (Fl).                                             *)
(***************************************************************************)
EXTENDS Integers, Sequences, FiniteSets, TLC

(* ------------------------------ bounds -------------------------------- *)

\* Number of worker actors of the model (MAX_WORKERS is 20 in the source).
NumWorkers == 2

\* Largest job count --n the model draws.
MaxJobs == 3

(* ------------------------- program constants -------------------------- *)

\* error_code of a job aborted at the ceiling (job->error_code = -1).
TimeoutCode == -1

(* -------------------------- double arithmetic ------------------------- *)

\* Radix of the two-limb representation.
Base == 2^30

\* double slice = 0.1: 0x1.999999999999Ap-4 = 7205759403792794 * 2^-56.
Slice == <<6710886, 429496730>>

\* The ceiling 10.0 of `elapsed >= 10.0`: 10 * 2^56 units.
Ceiling == <<671088640, 0>>

\* double elapsed = 0.0.
Zero == <<0, 0>>

\* a < b on doubles.
DLess(a, b) == a[1] < b[1] \/ (a[1] = b[1] /\ a[2] < b[2])

\* a >= b on doubles.
DGeq(a, b) == ~DLess(a, b)

\* Carry of the low limb into the high limb.
Norm(x) == IF x[2] >= Base THEN <<x[1] + 1, x[2] - Base>> ELSE x

\* Spacing of the doubles in the binade of a value with high limb hi, in
\* units of 2^-56: 2^(e-52) for a value in [2^e, 2^(e+1)), e >= -4; a value
\* below 2^-4 that is a whole number of units is a double as it stands.
Ulp(hi) ==
    IF hi >= 2^29 THEN 128
    ELSE IF hi >= 2^28 THEN 64
    ELSE IF hi >= 2^27 THEN 32
    ELSE IF hi >= 2^26 THEN 16
    ELSE IF hi >= 2^25 THEN 8
    ELSE IF hi >= 2^24 THEN 4
    ELSE IF hi >= 2^23 THEN 2
    ELSE 1

\* Rounding of the exact value x to the nearest double, ties to even.
Fl(x) ==
    LET u    == Ulp(x[1])
        r    == x[2] % u
        down == x[2] - r
        odd  == (down \div u) % 2 = 1
        up   == 2 * r > u \/ (2 * r = u /\ odd)
    IN  IF up THEN Norm(<<x[1], down + u>>) ELSE <<x[1], down>>

\* a + b in double arithmetic.
DAdd(a, b) == Fl(Norm(<<a[1] + b[1], a[2] + b[2]>>))

\* a - b in double arithmetic, for a >= b.
DSub(a, b) ==
    Fl(IF a[2] >= b[2]
       THEN <<a[1] - b[1], a[2] - b[2]>>
       ELSE <<a[1] - b[1] - 1, a[2] + Base - b[2]>>)

\* std::min(a, b): b when b < a, else a.
DMin(a, b) == IF DLess(b, a) THEN b ELSE a

(* ------------------------------- inputs ------------------------------- *)

\* job_time = 1.0 + (static_cast<double>(rand()) / RAND_MAX) * 14.0 for the
\* rand() outputs r the model draws, evaluated in double arithmetic with
\* RAND_MAX = 2147483647:
\*   r = 4601751     job_time =  1.0300000021373854
\*   r = 1380525201  job_time =  9.999999995809048
\*   r = 1380525202  job_time = 10.000000002328306
\*   r = 1395864370  job_time = 10.09999999641441
\*   r = 1395864371  job_time = 10.100000002933667
\*   r = 2145949730  job_time = 14.989999999287537
JobTime(r) ==
    CASE r = 4601751    -> <<69122130, 68115504>>
      [] r = 1380525201 -> <<671088639, 771751936>>
      [] r = 1380525202 -> <<671088640, 167772160>>
      [] r = 1395864370 -> <<677799526, 171127680>>
      [] r = 1395864371 -> <<677799526, 640889728>>
      [] r = 2145949730 -> <<1005961871, 335208704>>

\* rand() outputs drawn where the actors' interleaving is explored: one
\* job that completes and one that runs into the ceiling.
RandOutputs == {4601751, 2145949730}

\* rand() outputs drawn where the slice loop is explored: loads on both
\* sides of the ceiling.
TimingRandOutputs ==
    {4601751, 1380525201, 1380525202, 1395864370, 1395864371}

\* Job counts drawn where the slice loop is explored.
TimingJobCounts == {1, 2}

\* Values of --n: stoi accepts any integer, no positivity check is made.
JobCounts == {-1} \cup (0 .. MaxJobs)

\* The JSON error table (site -> error code -> count) read from --input.
Dictionary == [q \in {"ANALY_SITE"} |-> ("1305" :> 3 @@ "1099" :> 1)]

\* Values of --queue: one site of the table, one absent from it.
Queues == {"ANALY_SITE", "OTHER_SITE"}

(* ------------------------------- state -------------------------------- *)

Workers == 0 .. (NumWorkers - 1)

\* g_mutex held by nobody (g_mutex is the set of the workers inside a
\* lock_guard on it).
Unlocked == {}

\* A map with no key (an empty unordered_map).
EmptyMap == [k \in {} |-> 0]

\* Job(n, l): name(n), load(l), error_code(0).  idx is the job's number
\* (the i of "job" + to_string(i)), kept beside the name.
Job(n, l, idx) == [name |-> n, load |-> l, error_code |-> 0, idx |-> idx]

\* No job held by a worker.
NoJob == [name |-> "", load |-> Zero, error_code |-> 0, idx |-> -1]

\* "job" + to_string(i).
JobName(i) == "job" \o ToString(i)

\* Mutant of WorkerOf: the round robin runs from the last worker down.
WorkerOfReversed(i) == (NumWorkers - 1) - (i % NumWorkers)

\* Mutant of WorkerOf: the round robin starts one worker late.
WorkerOfShifted(i) == (i + 1) % NumWorkers

\* "worker" + to_string(i % MAX_WORKERS): the mailbox of that name, as the
\* index of the worker that owns it.
WorkerOf(i) == i % NumWorkers

VARIABLES
    mainPc,          \* main(): "extract", "create", "run", "done"
    total_jobs,      \* main's total_jobs (--n)
    queue_name,      \* main's queue_name (--queue)
    error_codes,     \* main's error_codes: the queue's code -> count
    total_weight,    \* main's total_weight
    summary,         \* what main prints after e.run()
    rand_pool,       \* the outputs rand() may give in this run
    masterPc,        \* master(): "none", "jobs", "put_job", "exits", "put_exit", "done"
    mi,              \* master's loop index i
    mbox,            \* mailbox of each worker: the puts not yet received
    wpc,             \* worker(): "none", "waiting", "loop", "lock", "read", "write", "unlock", "exited"
    job,             \* the Job each worker holds
    elapsed,         \* each worker's elapsed
    tmp,             \* each worker's value read for its increment
    g_total_success, \* global success counter
    g_error_counts,  \* global error_code -> count
    g_mutex,         \* the workers holding g_mutex
    sent,            \* history: the master's puts, <<name, worker>>, in order
    received,        \* history: the names each worker got, in order
    recorded,        \* history: per job, the passes through the counter update
    succ_incs,       \* history: per job, the increase of g_total_success
    err_incs,        \* history: per job, the increase of g_error_counts' sum
    outcomes,        \* history: the error codes of the recorded jobs, in order
    steps            \* history: the steps taken so far

mainVars   == <<mainPc, total_jobs, queue_name, error_codes, total_weight, summary, rand_pool>>
masterVars == <<masterPc, mi>>
workerVars == <<wpc, job, elapsed, tmp>>
globalVars == <<g_total_success, g_error_counts, g_mutex>>
histVars   == <<sent, received, recorded, succ_incs, err_incs, outcomes>>
vars == <<mainVars, masterVars, mbox, workerVars, globalVars, histVars, steps>>

\* One more step taken.
Tick == steps' = steps + 1

JobIds == 0 .. (MaxJobs - 1)

\* Sum of the counts of a code -> count map.
RECURSIVE SumCounts(_)
SumCounts(m) ==
    IF DOMAIN m = {} THEN 0
    ELSE LET k == CHOOSE x \in DOMAIN m : TRUE
         IN  m[k] + SumCounts([c \in DOMAIN m \ {k} |-> m[c]])

\* State after argument parsing, for the given inputs.
InitWith(counts, queues, pool) ==
    /\ mainPc = "extract"
    /\ total_jobs \in counts
    /\ queue_name \in queues
    /\ error_codes = EmptyMap
    /\ total_weight = 0
    /\ summary = [printed |-> FALSE]
    /\ rand_pool = pool
    /\ masterPc = "none"
    /\ mi = 0
    /\ mbox = [w \in Workers |-> <<>>]
    /\ wpc = [w \in Workers |-> "none"]
    /\ job = [w \in Workers |-> NoJob]
    /\ elapsed = [w \in Workers |-> Zero]
    /\ tmp = [w \in Workers |-> 0]
    /\ g_total_success = 0
    /\ g_error_counts = EmptyMap
    /\ g_mutex = Unlocked
    /\ sent = <<>>
    /\ received = [w \in Workers |-> <<>>]
    /\ recorded = [j \in JobIds |-> 0]
    /\ succ_incs = [j \in JobIds |-> 0]
    /\ err_incs = [j \in JobIds |-> 0]
    /\ outcomes = <<>>
    /\ steps = 0

Init == InitWith(JobCounts, Queues, RandOutputs)

InitTiming == InitWith(TimingJobCounts, {"ANALY_SITE"}, TimingRandOutputs)

(* -------------------------------- main -------------------------------- *)

\* Mutant of SiteCodes: a queue absent from the table falls back to the
\* codes of a site that is in it.
SiteCodesFallback(q) ==
    IF q \in DOMAIN Dictionary THEN Dictionary[q] ELSE Dictionary["ANALY_SITE"]

\* The error codes and counts of queue q: its entry of the table, or
\* nothing ("Site not found") when the table has no such site.
SiteCodes(q) ==
    IF q \in DOMAIN Dictionary THEN Dictionary[q] ELSE EmptyMap

\* Extract error codes and counts for the target site; total weight.
MainExtract ==
    /\ mainPc = "extract"
    /\ error_codes' = SiteCodes(queue_name)
    /\ total_weight' = SumCounts(error_codes')
    /\ mainPc' = "create"
    /\ Tick
    /\ UNCHANGED <<total_jobs, queue_name, summary, rand_pool, masterVars, mbox,
                   workerVars, globalVars, histVars>>

\* Actor::create of the master and of every worker.
MainCreateActors ==
    /\ mainPc = "create"
    /\ masterPc' = "jobs"
    /\ wpc' = [w \in Workers |-> "waiting"]
    /\ mainPc' = "run"
    /\ Tick
    /\ UNCHANGED <<total_jobs, queue_name, error_codes, total_weight, summary,
                   rand_pool, mi, mbox, job, elapsed, tmp, globalVars, histVars>>

\* Mutant of AllActorsTerminated: main does not wait for e.run().
RunNotAwaited == TRUE

\* e.run() returns: no actor is left, master() and every worker() have
\* returned.
AllActorsTerminated ==
    /\ masterPc = "done"
    /\ \A w \in Workers : wpc[w] = "exited"

\* After e.run(): the summary.
MainSummary ==
    /\ mainPc = "run"
    /\ AllActorsTerminated
    /\ LET total_success  == g_total_success
           total_failures == total_jobs - total_success
       IN  summary' = [printed        |-> TRUE,
                       total_jobs     |-> total_jobs,
                       total_success  |-> total_success,
                       total_failures |-> total_failures,
                       details        |-> IF total_failures > 0
                                          THEN g_error_counts
                                          ELSE EmptyMap]
    /\ mainPc' = "done"
    /\ Tick
    /\ UNCHANGED <<total_jobs, queue_name, error_codes, total_weight, rand_pool,
                   masterVars, mbox, workerVars, globalVars, histVars>>

(* ------------------------------- master ------------------------------- *)

\* Mutant of PutDone: the put returns without waiting for a get.
PutDoneAlways(w) == TRUE

\* Mailbox::put is blocking: the master goes on once the worker's get has
\* taken the message out of the mailbox.
PutDone(w) == mbox[w] = <<>>

\* Mutant of JobLoopCond: the master stops sending jobs once a failure is
\* on record.
JobLoopCondUntilFailure == mi < total_jobs /\ g_error_counts = EmptyMap

\* Mutant of JobLoopCond: the job loop ends one job early.
JobLoopCondOneShort == mi < total_jobs - 1

\* i < num_jobs of the job loop.
JobLoopCond == mi < total_jobs

\* Mutant of ExitLoopCond: the last worker gets no termination message.
ExitLoopCondShort == mi < NumWorkers - 1

\* i < MAX_WORKERS of the termination loop.
ExitLoopCond == mi < NumWorkers

\* Mutant of ExitDest: every termination message goes to worker0.
ExitDestFirst(i) == 0

\* "worker" + to_string(i) of the termination loop: the mailbox of that
\* name, as the index of the worker that owns it.
ExitDest(i) == i

\* One pass of `for (i = 0; i < num_jobs; i++)` up to the put: a new Job
\* with a random load, put into the mailbox of worker i % MAX_WORKERS.
MasterSendJob ==
    /\ masterPc = "jobs"
    /\ JobLoopCond
    /\ \E r \in rand_pool :
          LET j == Job(JobName(mi), JobTime(r), mi)
              w == WorkerOf(mi)
          IN  /\ mbox' = [mbox EXCEPT ![w] = Append(@, j)]
              /\ sent' = Append(sent, <<j.name, w>>)
    /\ masterPc' = "put_job"
    /\ Tick
    /\ UNCHANGED <<mainVars, mi, workerVars, globalVars, received, recorded,
                   succ_incs, err_incs, outcomes>>

\* The put of a job returns; i++.
MasterJobPut ==
    /\ masterPc = "put_job"
    /\ PutDone(WorkerOf(mi))
    /\ mi' = mi + 1
    /\ masterPc' = "jobs"
    /\ Tick
    /\ UNCHANGED <<mainVars, mbox, workerVars, globalVars, histVars>>

\* i < num_jobs fails: on to the termination loop, i = 0.
MasterJobsSent ==
    /\ masterPc = "jobs"
    /\ ~JobLoopCond
    /\ mi' = 0
    /\ masterPc' = "exits"
    /\ Tick
    /\ UNCHANGED <<mainVars, mbox, workerVars, globalVars, histVars>>

\* One pass of `for (i = 0; i < MAX_WORKERS; i++)` up to the put: the
\* "exit" job put into the mailbox of worker i.
MasterSendExit ==
    /\ masterPc = "exits"
    /\ ExitLoopCond
    /\ mbox' = [mbox EXCEPT ![ExitDest(mi)] = Append(@, Job("exit", Zero, -1))]
    /\ sent' = Append(sent, <<"exit", ExitDest(mi)>>)
    /\ masterPc' = "put_exit"
    /\ Tick
    /\ UNCHANGED <<mainVars, mi, workerVars, globalVars, received, recorded,
                   succ_incs, err_incs, outcomes>>

\* The put of a termination message returns; i++.
MasterExitPut ==
    /\ masterPc = "put_exit"
    /\ PutDone(ExitDest(mi))
    /\ mi' = mi + 1
    /\ masterPc' = "exits"
    /\ Tick
    /\ UNCHANGED <<mainVars, mbox, workerVars, globalVars, histVars>>

\* i < MAX_WORKERS fails: master() returns.
MasterReturn ==
    /\ masterPc = "exits"
    /\ ~ExitLoopCond
    /\ masterPc' = "done"
    /\ Tick
    /\ UNCHANGED <<mainVars, mi, mbox, workerVars, globalVars, histVars>>

(* ------------------------------- worker ------------------------------- *)

\* The values worker() stores in job->error_code besides the constructor's
\* 0: `job->error_code = -1` is its only assignment; ec, the queue's error
\* table built in main, is not read by worker().
FailureCodes(ec) == {TimeoutCode}

\* Mutant of AtCeiling: the ceiling test compares with 1.0.
AtCeilingOne(e) == DGeq(e, <<2^26, 0>>)

\* elapsed >= 10.0.
AtCeiling(e) == DGeq(e, Ceiling)

\* Mutant of LockFree: the lock_guard does not wait for the mutex.
LockFreeAlways == TRUE

\* Mutant of LockFree: the mutex lets a second holder in.
LockFreeSecond == Cardinality(g_mutex) <= 1

\* Whether a lock_guard on g_mutex can be taken.
LockFree == g_mutex = Unlocked

\* Mutant of CounterRead: the counter is taken to be 0 at every update.
CounterReadFresh(code) == 0

\* The counter `++g_total_success` or `g_error_counts[code]++` reads for a
\* job with this error code (operator[] makes a missing entry 0).
CounterRead(code) ==
    IF code = 0 THEN g_total_success
    ELSE IF code \in DOMAIN g_error_counts THEN g_error_counts[code] ELSE 0

\* Mutant of SuccessAfter: the else is missing, ++g_total_success runs
\* for a failed job too.
SuccessAfterAlways(code, v) ==
    IF code = 0 THEN v + 1 ELSE g_total_success + 1

\* g_total_success after the update for a job with this error code.
SuccessAfter(code, v) == IF code = 0 THEN v + 1 ELSE g_total_success

\* Mutant of ErrorsAfter: a code with no entry yet is not counted.
ErrorsAfterKnownOnly(code, v) ==
    [c \in DOMAIN g_error_counts |->
        IF c = code THEN v + 1 ELSE g_error_counts[c]]

\* g_error_counts after the update for a job with this error code.
ErrorsAfter(code, v) ==
    IF code = 0 THEN g_error_counts
    ELSE [c \in DOMAIN g_error_counts \cup {code} |->
             IF c = code THEN v + 1 ELSE g_error_counts[c]]

\* The counters as the program starts: g_total_success = 0 and an empty
\* g_error_counts.
FreshAggregator == [total_success |-> 0, error_counts |-> EmptyMap]

\* The counters agg after `if (job->error_code == 0) ++g_total_success;
\* else g_error_counts[job->error_code]++;` run in one piece for a job with
\* this error code.
Record(agg, code) ==
    IF code = 0
    THEN [agg EXCEPT !.total_success = @ + 1]
    ELSE [agg EXCEPT !.error_counts =
             [c \in DOMAIN @ \cup {code} |->
                 (IF c \in DOMAIN @ THEN @[c] ELSE 0)
                 + (IF c = code THEN 1 ELSE 0)]]

\* The counters after the updates for the error codes of seq, in order,
\* starting from FreshAggregator.
RECURSIVE Replay(_)
Replay(seq) ==
    IF seq = <<>> THEN FreshAggregator
    ELSE Record(Replay(SubSeq(seq, 1, Len(seq) - 1)), seq[Len(seq)])

\* mbox->get<Job>() is blocking: it returns once a message has been put
\* into the worker's mailbox.
GetReady(w) == mbox[w] # <<>>

\* Mutant of IsExit: any message is taken for the termination message.
IsExitAny(j) == TRUE

\* job->name == "exit".
IsExit(j) == j.name = "exit"

\* mbox->get<Job>() returns the termination message: the worker leaves.
WorkerGetExit(w) ==
    /\ wpc[w] = "waiting"
    /\ GetReady(w)
    /\ IsExit(Head(mbox[w]))
    /\ mbox' = [mbox EXCEPT ![w] = Tail(@)]
    /\ received' = [received EXCEPT ![w] = Append(@, Head(mbox[w]).name)]
    /\ wpc' = [wpc EXCEPT ![w] = "exited"]
    /\ Tick
    /\ UNCHANGED <<mainVars, masterVars, job, elapsed, tmp, globalVars, sent,
                   recorded, succ_incs, err_incs, outcomes>>

\* mbox->get<Job>() returns a job: elapsed = 0.0, on to the slice loop.
WorkerGetJob(w) ==
    /\ wpc[w] = "waiting"
    /\ GetReady(w)
    /\ ~IsExit(Head(mbox[w]))
    /\ mbox' = [mbox EXCEPT ![w] = Tail(@)]
    /\ received' = [received EXCEPT ![w] = Append(@, Head(mbox[w]).name)]
    /\ job' = [job EXCEPT ![w] = Head(mbox[w])]
    /\ elapsed' = [elapsed EXCEPT ![w] = Zero]
    /\ wpc' = [wpc EXCEPT ![w] = "loop"]
    /\ Tick
    /\ UNCHANGED <<mainVars, masterVars, tmp, globalVars, sent, recorded,
                   succ_incs, err_incs, outcomes>>

\* One slice: elapsed < load and elapsed < 10.0; sleep for
\* min(slice, load - elapsed), then elapsed += sleep_time.
WorkerSlice(w) ==
    /\ wpc[w] = "loop"
    /\ DLess(elapsed[w], job[w].load)
    /\ ~AtCeiling(elapsed[w])
    /\ LET remaining  == DSub(job[w].load, elapsed[w])
           sleep_time == DMin(Slice, remaining)
       IN  elapsed' = [elapsed EXCEPT ![w] = DAdd(@, sleep_time)]
    /\ Tick
    /\ UNCHANGED <<mainVars, masterVars, mbox, wpc, job, tmp, globalVars,
                   histVars>>

\* elapsed < load and elapsed >= 10.0: the job is aborted.
WorkerAbort(w) ==
    /\ wpc[w] = "loop"
    /\ DLess(elapsed[w], job[w].load)
    /\ AtCeiling(elapsed[w])
    /\ \E c \in FailureCodes(error_codes) :
          job' = [job EXCEPT ![w].error_code = c]
    /\ wpc' = [wpc EXCEPT ![w] = "lock"]
    /\ Tick
    /\ UNCHANGED <<mainVars, masterVars, mbox, elapsed, tmp, globalVars,
                   histVars>>

\* elapsed < load fails: the job has run its load.
WorkerLoopEnd(w) ==
    /\ wpc[w] = "loop"
    /\ ~DLess(elapsed[w], job[w].load)
    /\ wpc' = [wpc EXCEPT ![w] = "lock"]
    /\ Tick
    /\ UNCHANGED <<mainVars, masterVars, mbox, job, elapsed, tmp, globalVars,
                   histVars>>

\* lock_guard<mutex> lock(g_mutex).
WorkerLock(w) ==
    /\ wpc[w] = "lock"
    /\ LockFree
    /\ g_mutex' = g_mutex \cup {w}
    /\ wpc' = [wpc EXCEPT ![w] = "read"]
    /\ Tick
    /\ UNCHANGED <<mainVars, masterVars, mbox, job, elapsed, tmp,
                   g_total_success, g_error_counts, histVars>>

\* The read of the counter the job's outcome selects.
WorkerRead(w) ==
    /\ wpc[w] = "read"
    /\ tmp' = [tmp EXCEPT ![w] = CounterRead(job[w].error_code)]
    /\ wpc' = [wpc EXCEPT ![w] = "write"]
    /\ Tick
    /\ UNCHANGED <<mainVars, masterVars, mbox, job, elapsed, globalVars,
                   histVars>>

\* The write of the incremented counter.
WorkerWrite(w) ==
    /\ wpc[w] = "write"
    /\ g_total_success' = SuccessAfter(job[w].error_code, tmp[w])
    /\ g_error_counts' = ErrorsAfter(job[w].error_code, tmp[w])
    /\ recorded' = [recorded EXCEPT ![job[w].idx] = @ + 1]
    /\ succ_incs' = [succ_incs EXCEPT
                        ![job[w].idx] = @ + g_total_success' - g_total_success]
    /\ err_incs' = [err_incs EXCEPT
                       ![job[w].idx] = @ + SumCounts(g_error_counts')
                                         - SumCounts(g_error_counts)]
    /\ outcomes' = Append(outcomes, job[w].error_code)
    /\ wpc' = [wpc EXCEPT ![w] = "unlock"]
    /\ Tick
    /\ UNCHANGED <<mainVars, masterVars, mbox, job, elapsed, tmp, g_mutex,
                   sent, received>>

\* The lock_guard's scope ends; delete job; back to mbox->get.
WorkerUnlock(w) ==
    /\ wpc[w] = "unlock"
    /\ g_mutex' = g_mutex \ {w}
    /\ job' = [job EXCEPT ![w] = NoJob]
    /\ wpc' = [wpc EXCEPT ![w] = "waiting"]
    /\ Tick
    /\ UNCHANGED <<mainVars, masterVars, mbox, elapsed, tmp, g_total_success,
                   g_error_counts, histVars>>

(* --------------------------- specifications --------------------------- *)

Next ==
    \/ MainExtract
    \/ MainCreateActors
    \/ MainSummary
    \/ MasterSendJob
    \/ MasterJobPut
    \/ MasterJobsSent
    \/ MasterSendExit
    \/ MasterExitPut
    \/ MasterReturn
    \/ \E w \in Workers : WorkerGetExit(w)
    \/ \E w \in Workers : WorkerGetJob(w)
    \/ \E w \in Workers : WorkerSlice(w)
    \/ \E w \in Workers : WorkerAbort(w)
    \/ \E w \in Workers : WorkerLoopEnd(w)
    \/ \E w \in Workers : WorkerLock(w)
    \/ \E w \in Workers : WorkerRead(w)
    \/ \E w \in Workers : WorkerWrite(w)
    \/ \E w \in Workers : WorkerUnlock(w)

\* Every interleaving of main, the master and the workers.
Spec == Init /\ [][Next]_vars

\* The same program with loads on both sides of the ceiling.
SpecTiming == InitTiming /\ [][Next]_vars

(* ------------------------------- claims ------------------------------- *)

\* The jobs whose outcome a worker has recorded.
RecordedJobs == {j \in JobIds : recorded[j] > 0}

\* The positions of the real jobs among the master's puts.
JobsSent == {k \in 1 .. Len(sent) : sent[k][1] # "exit"}

\* The positions of the termination message in a sequence of names.
ExitsIn(seq) == {k \in 1 .. Len(seq) : seq[k] = "exit"}

\* The number of real jobs worker w has received.
RealReceived(w) == Len(received[w]) - Cardinality(ExitsIn(received[w]))

\* ceil(a / b) for a >= 1, b >= 1.
CeilDiv(a, b) == (a + b - 1) \div b

\* Worker w holds a job it has received and not yet deleted.
Busy(w) == wpc[w] \in {"loop", "lock", "read", "write", "unlock"}

\* Worker w holds a job whose slice loop is over.
LoopOver(w) == wpc[w] \in {"lock", "read", "write", "unlock"}

\* The queue's table has a code with a positive count.
HasPositiveCode(ec) == \E c \in DOMAIN ec : ec[c] > 0

\* The target queue is not a site of the table.
SiteAbsent == queue_name \notin DOMAIN Dictionary

\* C1: in every reachable state, g_total_success plus the sum of the counts
\* in g_error_counts equals the number of real jobs whose outcome has been
\* recorded by some worker so far.
C1_CountersMatchRecordedJobs ==
    g_total_success + SumCounts(g_error_counts) = Cardinality(RecordedJobs)

\* A success and a timeout are recorded while a worker still runs a job.
C1_Witness ==
    /\ g_total_success >= 1
    /\ TimeoutCode \in DOMAIN g_error_counts
    /\ \E w \in Workers : wpc[w] = "loop" /\ elapsed[w] # Zero

\* C2: when the summary is produced for N >= 1 jobs, total_success +
\* total_failures = total_jobs, the derived total_failures is the sum of the
\* error histogram, and total_success plus that sum is N, the number of jobs
\* the master dispatched.
C2_SummaryAddsUp ==
    (mainPc = "done" /\ total_jobs >= 1) =>
        /\ summary.total_jobs = total_jobs
        /\ summary.total_success + summary.total_failures = summary.total_jobs
        /\ summary.total_failures = SumCounts(g_error_counts)
        /\ summary.total_success + SumCounts(g_error_counts) = total_jobs
        /\ Cardinality(JobsSent) = total_jobs

\* A summary with successes and failures for the largest job count.
C2_Witness ==
    /\ mainPc = "done"
    /\ total_jobs = MaxJobs
    /\ summary.total_success >= 1
    /\ summary.total_failures >= 1

\* C3: a job whose load is below the 10.0 s ceiling never takes the abort
\* branch: it keeps error_code 0 while a worker holds it, and the counter
\* update records it as a success, whatever the other worker does.
C3_BelowCeilingSucceeds ==
    \A w \in Workers :
        (Busy(w) /\ DLess(job[w].load, Ceiling)) =>
            /\ job[w].error_code = 0
            /\ wpc[w] = "unlock" =>
                  succ_incs[job[w].idx] = 1 /\ err_incs[job[w].idx] = 0

\* A job of 9.999999995809048 s is recorded as a success after the other
\* worker's job timed out.
C3_Witness ==
    \E w \in Workers :
        /\ wpc[w] = "unlock"
        /\ job[w].load = JobTime(1380525201)
        /\ elapsed[w] = job[w].load
        /\ succ_incs[job[w].idx] = 1
        /\ TimeoutCode \in DOMAIN g_error_counts

\* C4: a job with load >= 10.0 leaves the slice loop aborted, with the
\* timeout code -1, and is recorded as a failure, never as a success.
C4_AtOrAboveCeilingTimesOut ==
    \A w \in Workers :
        (LoopOver(w) /\ DGeq(job[w].load, Ceiling)) =>
            /\ job[w].error_code = TimeoutCode
            /\ wpc[w] = "unlock" =>
                  succ_incs[job[w].idx] = 0 /\ err_incs[job[w].idx] = 1

\* C5: round robin: the k-th put of a job carries job k-1 and goes to worker
\* (k-1) mod W, a worker receives only jobs i with i mod W its own number,
\* and at the end of the run worker w has received ceil((N-w)/W) real jobs,
\* none when w >= N.
C5_RoundRobin ==
    /\ \A k \in JobsSent : sent[k] = <<JobName(k - 1), (k - 1) % NumWorkers>>
    /\ \A w \in Workers : \A k \in 1 .. Len(received[w]) :
          received[w][k] # "exit" =>
              \E i \in JobIds : /\ received[w][k] = JobName(i)
                                /\ i % NumWorkers = w
    /\ mainPc = "done" =>
          \A w \in Workers :
              RealReceived(w) = IF w < total_jobs
                                THEN CeilDiv(total_jobs - w, NumWorkers)
                                ELSE 0

\* The run of the largest job count is over and worker0 got a second job.
C5_Witness ==
    /\ mainPc = "done"
    /\ total_jobs = MaxJobs
    /\ RealReceived(0) = CeilDiv(MaxJobs, NumWorkers)
    /\ RealReceived(0) >= 2

\* C6: every worker receives exactly one termination message, as its last
\* message: a received "exit" ends the worker's messages, the master puts at
\* most one "exit" per worker and nothing for that worker after it, a worker
\* has exited exactly when it has received "exit", and at the end of the run
\* every worker has received one.
C6_OneSentinelLast ==
    \A w \in Workers :
        /\ \A k \in ExitsIn(received[w]) : k = Len(received[w])
        /\ Cardinality({k \in 1 .. Len(sent) : sent[k] = <<"exit", w>>}) <= 1
        /\ \A k, l \in 1 .. Len(sent) :
              (sent[k] = <<"exit", w>> /\ l > k) => sent[l][2] # w
        /\ (wpc[w] = "exited") <=> (ExitsIn(received[w]) # {})
        /\ mainPc = "done" => Cardinality(ExitsIn(received[w])) = 1

\* Every worker has received jobs and then its termination message.
C6_Witness ==
    /\ mainPc = "done"
    /\ \A w \in Workers :
          /\ Len(received[w]) >= 2
          /\ received[w][Len(received[w])] = "exit"

\* The most steps a run of N jobs takes: 3 of main, 2N + 1 and 2W + 1 of
\* the master, one "exit" per worker and, per job, the get, at most 101
\* slices, the end of the loop and the four steps of the update.
StepBound ==
    LET n == IF total_jobs > 0 THEN total_jobs ELSE 0
    IN  3 + (2 * n + 1) + (2 * NumWorkers + 1) + NumWorkers + n * (101 + 6)

\* main can take a step: it is before e.run(), or e.run() can return.
MainCanStep ==
    \/ mainPc \in {"extract", "create"}
    \/ mainPc = "run" /\ AllActorsTerminated

\* The master can take a step: it is in one of its loops and not inside a
\* put that no get has matched.
MasterCanStep ==
    \/ masterPc \in {"jobs", "exits"}
    \/ masterPc = "put_job" /\ PutDone(WorkerOf(mi))
    \/ masterPc = "put_exit" /\ PutDone(ExitDest(mi))

\* Worker w can take a step: it runs a job, or its get or its lock_guard
\* can return.
WorkerCanStep(w) ==
    \/ wpc[w] \in {"loop", "read", "write", "unlock"}
    \/ wpc[w] = "waiting" /\ GetReady(w)
    \/ wpc[w] = "lock" /\ LockFree

\* Some step of the program can be taken (ENABLED Next).
CanStep == MainCanStep \/ MasterCanStep \/ \E w \in Workers : WorkerCanStep(w)

\* C7: every run terminates, stated for finite runs: a state in which no
\* actor can take a step is the state after the summary, no run takes more
\* than StepBound steps, and after the summary the master has returned with
\* all its messages sent and every worker has exited.
C7_RunTerminates ==
    /\ mainPc = "done" \/ CanStep
    /\ steps <= StepBound
    /\ mainPc = "done" =>
          /\ summary.printed
          /\ masterPc = "done"
          /\ \A w \in Workers : wpc[w] = "exited" /\ mbox[w] = <<>>
          /\ Len(sent) = Cardinality(JobsSent) + NumWorkers

\* The longest run: every job of the largest job count runs into the
\* ceiling.
C7_Witness ==
    /\ mainPc = "done"
    /\ total_jobs = MaxJobs
    /\ steps = StepBound

\* C8: a job can also fail by an injected error drawn from the queue's
\* error table: when the table has a code with a positive count, the codes
\* worker() can give a failed job include one other than the timeout code.
C8_InjectedCodeCanBeRecorded ==
    (mainPc # "extract" /\ HasPositiveCode(error_codes)) =>
        \E c \in FailureCodes(error_codes) : c # TimeoutCode

\* C9: with the target queue absent from the table the queue has no error
\* codes, no job gets an error code other than the timeout code, and the
\* only key the error histogram can hold is the timeout code -1.
C9_AbsentSiteOnlyTimeouts ==
    (SiteAbsent /\ mainPc # "extract") =>
        /\ error_codes = EmptyMap
        /\ total_weight = 0
        /\ \A w \in Workers : job[w].error_code \in {0, TimeoutCode}
        /\ DOMAIN g_error_counts \subseteq {TimeoutCode}

\* The run for an absent queue ends with timeouts in the summary.
C9_Witness ==
    /\ SiteAbsent
    /\ mainPc = "done"
    /\ summary.total_failures >= 1
    /\ DOMAIN summary.details = {TimeoutCode}

\* C10: a job's outcome is written once: no job is recorded more than once,
\* each recording is one increment of g_total_success or one increment of
\* the error histogram, never both, and at the end of the run every job of
\* the run has been recorded.
C10_OneUpdatePerJob ==
    /\ \A j \in JobIds :
          /\ recorded[j] <= 1
          /\ succ_incs[j] \in {0, 1}
          /\ err_incs[j] \in {0, 1}
          /\ succ_incs[j] + err_incs[j] = recorded[j]
    /\ mainPc = "done" =>
          \A j \in JobIds : recorded[j] = IF j < total_jobs THEN 1 ELSE 0

\* The run is over with one job counted as a success and another as an
\* error.
C10_Witness ==
    /\ mainPc = "done"
    /\ \E j1, j2 \in JobIds :
          /\ succ_incs[j1] = 1 /\ err_incs[j1] = 0
          /\ succ_incs[j2] = 0 /\ err_incs[j2] = 1

\* Worker w is inside the scope of its lock_guard.
InUpdate(w) == wpc[w] \in {"read", "write", "unlock"}

\* C11: the updates of g_total_success and g_error_counts are mutually
\* exclusive and none is lost: at most one worker is inside the locked
\* update, g_mutex is held by exactly the workers inside it, the counter a
\* worker has read is unchanged when it writes, and after its write the
\* counter is the value it read plus one.
C11_MutualExclusion ==
    /\ Cardinality({w \in Workers : InUpdate(w)}) <= 1
    /\ g_mutex = {w \in Workers : InUpdate(w)}
    /\ \A w \in Workers :
          /\ wpc[w] = "write" => CounterRead(job[w].error_code) = tmp[w]
          /\ wpc[w] = "unlock" => CounterRead(job[w].error_code) = tmp[w] + 1

\* A worker is between its read and its write of g_total_success while
\* another worker with a successful job waits for the mutex.
C11_Witness ==
    \E w1, w2 \in Workers :
        /\ wpc[w1] = "write" /\ job[w1].error_code = 0
        /\ wpc[w2] = "lock" /\ job[w2].error_code = 0

\* The counters of the program, as one value.
Aggregator == [total_success |-> g_total_success, error_counts |-> g_error_counts]

\* C12: aggregation is deterministic: the counters are a function of the
\* sequence of recorded outcomes alone.  In every reachable state
\* g_total_success and g_error_counts are what replaying the error codes
\* recorded so far, in order, on a fresh aggregator gives, whatever the
\* interleaving that led there.
C12_AggregationIsReplay == Aggregator = Replay(outcomes)

\* Every job of the largest job count is recorded, a timeout before a
\* success and some outcome twice.
C12_Witness ==
    /\ Len(outcomes) = MaxJobs
    /\ \E k, l \in 1 .. Len(outcomes) :
          k < l /\ outcomes[k] = TimeoutCode /\ outcomes[l] = 0
    /\ \E k, l \in 1 .. Len(outcomes) : k < l /\ outcomes[k] = outcomes[l]

\* The state of the worker's cycle a position of worker() belongs to.
Phase(pc) ==
    CASE pc = "none" -> "NotStarted"
      [] pc = "waiting" -> "WaitingForMessage"
      [] pc = "loop" -> "Processing"
      [] pc \in {"lock", "read", "write", "unlock"} -> "RecordingOutcome"
      [] pc = "exited" -> "Exited"

\* The changes of state of the worker's cycle.
PhaseSteps ==
    {<<"NotStarted", "WaitingForMessage">>,
     <<"WaitingForMessage", "Processing">>,
     <<"Processing", "RecordingOutcome">>,
     <<"RecordingOutcome", "WaitingForMessage">>,
     <<"WaitingForMessage", "Exited">>}

\* C13: every step of a worker that changes its state follows the cycle
\* WaitingForMessage -> Processing -> RecordingOutcome -> WaitingForMessage
\* or goes from WaitingForMessage to Exited; the step into Exited is the
\* receipt of the "exit" message by a worker that holds no job, a message
\* other than "exit" takes the worker to Processing, and an exited worker
\* stays exited.
C13_WorkerCycle ==
    [][\A w \in Workers :
          /\ Phase(wpc'[w]) # Phase(wpc[w]) =>
                <<Phase(wpc[w]), Phase(wpc'[w])>> \in PhaseSteps
          /\ (wpc[w] # "exited" /\ wpc'[w] = "exited") =>
                /\ wpc[w] = "waiting"
                /\ job[w] = NoJob
                /\ mbox[w] # <<>>
                /\ received'[w] = Append(received[w], "exit")
          /\ (wpc[w] = "waiting" /\ wpc'[w] = "waiting") =>
                received'[w] = received[w]
          /\ (wpc[w] = "waiting" /\ wpc'[w] = "loop") =>
                /\ received'[w] # received[w]
                /\ received'[w][Len(received'[w])] # "exit"
          /\ wpc[w] = "exited" => wpc'[w] = "exited"]_vars

\* A worker has gone round the cycle twice, one job timed out, and has
\* exited, while another worker is still recording an outcome.
C13_Witness ==
    \E w1, w2 \in Workers :
        /\ wpc[w1] = "exited"
        /\ Len(received[w1]) = 3
        /\ \E j \in JobIds : j % NumWorkers = w1 /\ err_incs[j] = 1
        /\ Phase(wpc[w2]) = "RecordingOutcome"

\* The number of jobs of the run: num_jobs, or none when it is not positive.
NumJobs == IF total_jobs > 0 THEN total_jobs ELSE 0

\* The k-th put of master(num_jobs): job k-1 to worker (k-1) mod W for the
\* first num_jobs puts, then "exit" to worker0, worker1, ...
PlannedPut(k) ==
    IF k <= NumJobs
    THEN <<JobName(k - 1), (k - 1) % NumWorkers>>
    ELSE <<"exit", k - NumJobs - 1>>

\* The jobs sent to worker w.
JobsOf(w) == {j \in JobIds : j < total_jobs /\ j % NumWorkers = w}

\* A job of worker w is on record as a failure.
HasFailed(w) == \E j \in JobsOf(w) : err_incs[j] = 1

\* C14: a job's failure is local to that job.  The master's puts are the
\* ones num_jobs alone fixes, whatever failed (it is not informed and sends
\* on), no job name is put twice (no retry), a worker with a failed job on
\* record has left only after recording every job sent to it, and at the
\* end of the run every job has been put once and recorded once.
C14_FailureIsLocal ==
    /\ \A k \in 1 .. Len(sent) : sent[k] = PlannedPut(k)
    /\ \A k, l \in JobsSent : sent[k][1] = sent[l][1] => k = l
    /\ \A w \in Workers :
          (HasFailed(w) /\ wpc[w] = "exited") =>
              \A j \in JobsOf(w) : recorded[j] = 1
    /\ mainPc = "done" =>
          \A j \in JobIds :
              j < total_jobs =>
                  /\ Cardinality({k \in JobsSent : sent[k][1] = JobName(j)}) = 1
                  /\ recorded[j] = 1

\* The run is over: job0 timed out, and the next job of the same worker
\* was put, processed and recorded as a success.
C14_Witness ==
    /\ mainPc = "done"
    /\ NumWorkers \in JobIds
    /\ err_incs[0] = 1
    /\ succ_incs[NumWorkers] = 1
    /\ \E k \in JobsSent : sent[k] = <<JobName(NumWorkers), 0>>

\* The positions of the termination messages among the master's puts.
ExitsSent == {k \in 1 .. Len(sent) : sent[k][1] = "exit"}

\* C15: the master sends all num_jobs real jobs before any termination
\* message: no put of a job follows a put of "exit" (to any worker), and
\* once an "exit" has been put, or the master has left its job loop, all
\* num_jobs jobs have been put.
C15_JobsBeforeSentinels ==
    /\ \A k \in ExitsSent : \A l \in JobsSent : l < k
    /\ ExitsSent # {} => Cardinality(JobsSent) = NumJobs
    /\ masterPc \in {"exits", "put_exit", "done"} =>
          Cardinality(JobsSent) = NumJobs

\* All jobs of the largest job count and a first "exit" have been put,
\* while a worker still runs a job.
C15_Witness ==
    /\ Cardinality(JobsSent) = MaxJobs
    /\ ExitsSent # {}
    /\ \E w \in Workers : wpc[w] = "loop"

\* The names of the messages the master has put for worker w, in order.
SentTo(w) ==
    LET puts == SelectSeq(sent, LAMBDA m : m[2] = w)
    IN  [k \in 1 .. Len(puts) |-> puts[k][1]]

\* C16: per-worker FIFO: what worker w has received is the beginning of
\* what the master has put for it, in the same order; its p-th job is job
\* w + (p-1)W; it holds one job at a time, the last it received; and it has
\* received its p-th job only after its (p-1)-th job was recorded.
C16_PerWorkerFifo ==
    \A w \in Workers :
        /\ Len(received[w]) <= Len(SentTo(w))
        /\ \A p \in 1 .. Len(received[w]) :
              /\ received[w][p] = SentTo(w)[p]
              /\ received[w][p] # "exit" =>
                    /\ received[w][p] = JobName(w + (p - 1) * NumWorkers)
                    /\ p >= 2 => recorded[w + (p - 2) * NumWorkers] = 1
        /\ Busy(w) =>
              /\ job[w].name = received[w][Len(received[w])]
              /\ recorded[job[w].idx] = IF wpc[w] = "unlock" THEN 1 ELSE 0

\* A worker runs its second job, received after its first was recorded.
C16_Witness ==
    \E w \in Workers :
        /\ wpc[w] = "loop"
        /\ Len(received[w]) = 2
        /\ received[w] = <<JobName(w), JobName(w + NumWorkers)>>
        /\ recorded[w] = 1

\* C17: the summary is computed only after every worker has exited: once
\* main has read g_total_success and g_error_counts, every worker has left
\* worker() holding no job, nobody holds g_mutex, the master has returned,
\* every job of the run is on record, and the counters are still the ones
\* the summary shows.
C17_SummaryAfterWorkersExit ==
    summary.printed =>
        /\ \A w \in Workers : wpc[w] = "exited" /\ job[w] = NoJob
        /\ g_mutex = Unlocked
        /\ masterPc = "done"
        /\ Len(outcomes) = NumJobs
        /\ summary.total_success = g_total_success
        /\ summary.total_failures > 0 => summary.details = g_error_counts

\* The summary of a run of the largest job count shows failures.
C17_Witness ==
    /\ summary.printed
    /\ Len(outcomes) = MaxJobs
    /\ summary.details # EmptyMap
    /\ \A w \in Workers : Len(received[w]) >= 2

\* The messages put by the master and not yet received.
Undelivered ==
    Len(sent) - SumCounts([w \in Workers |-> Len(received[w])])

\* C18: the master's put is a rendezvous with the worker's get.  At most
\* one message the master has put is undelivered, and it lies in the
\* mailbox of the put the master is blocked in; outside a put every message
\* has been received; when job i+1 has been put, job i has been received,
\* so worker i mod W is not busy with a job before job i.
C18_BlockingPut ==
    /\ Undelivered \in {0, 1}
    /\ Undelivered = SumCounts([w \in Workers |-> Len(mbox[w])])
    /\ masterPc \notin {"put_job", "put_exit"} => Undelivered = 0
    /\ masterPc = "put_job" =>
          \A w \in Workers : w # WorkerOf(mi) => mbox[w] = <<>>
    /\ masterPc = "put_exit" =>
          \A w \in Workers : w # ExitDest(mi) => mbox[w] = <<>>
    /\ \A k \in JobsSent :
          k >= 2 =>
              LET i == k - 2
                  w == i % NumWorkers
              IN  /\ \E p \in 1 .. Len(received[w]) : received[w][p] = JobName(i)
                  /\ ~(Busy(w) /\ job[w].idx < i)

\* The master is blocked in the put of a job for a worker that is still
\* busy with its earlier job.
C18_Witness ==
    /\ masterPc = "put_job"
    /\ mi >= NumWorkers
    /\ mbox[WorkerOf(mi)] # <<>>
    /\ Busy(WorkerOf(mi))
    /\ job[WorkerOf(mi)].idx = mi - NumWorkers

\* C19: while a worker holds a job, elapsed exceeds neither the job's load
\* nor the 10.0 ceiling, and once the slice loop is over the time spent on
\* the job is min(load, 10.0).
C19_ElapsedWithinLoadAndCeiling ==
    \A w \in Workers :
        Busy(w) =>
            /\ ~DLess(job[w].load, elapsed[w])
            /\ ~DLess(Ceiling, elapsed[w])
            /\ LoopOver(w) => elapsed[w] = DMin(job[w].load, Ceiling)

\* C20: for every job count --n accepts, zero and negative ones included,
\* the failure count of the summary, total_jobs - total_success, is not
\* negative and is the sum of the counts of the error histogram.
C20_FailuresNonNegativeAndSumUp ==
    summary.printed =>
        /\ summary.total_failures >= 0
        /\ summary.total_failures = SumCounts(g_error_counts)

====
